---- MODULE Spec2Model ----
(***************************************************************************)
(* Kitsunet-Share, src-tauri/src/main.rs: the presence-discovery loop      *)
(* (discovery_task), the offer table (accept_file_offer/reject_file_offer),*)
(* the inbound transfer handler (handle_incoming_batch, spawned by         *)
(* file_receiver_task) and the outbound transfer (send_files).             *)
(***************************************************************************)
EXTENDS Integers, Sequences, FiniteSets, TLC

(***************************************************************************)
(* Bounds of the model.                                                    *)
(***************************************************************************)
\* clock units per second: Instant has sub-second resolution, as_secs() floors
Res == 2
\* the clock stops here
MaxTime == 5
\* files per batch
MaxFiles == 2
\* largest file length, in bytes
MaxSize == 3
\* the 1 MiB chunk buffer of both streaming loops, scaled down
BufLen == 2
\* how many times the sender's local files change under a running send_files
MaxChanges == 1
\* the width of u64 in bits, scaled down
U64Bits == 3

(***************************************************************************)
(* Program constants.                                                      *)
(***************************************************************************)
PEER_TIMEOUT_SECS == 2
\* interval(Duration::from_secs(1))
HEARTBEAT_SECS == 1

\* Option<T>: None is the empty set, Some(x) is {x}
None == {}
Some(x) == {x}
Unwrap(o) == CHOOSE x \in o : TRUE

\* source addresses of datagrams: a remote machine and a local interface
RemoteAddrs == {"10.0.0.2"}
LocalIps == {"10.0.0.1"}
Usernames == {"alice", "bob"}
\* a datagram body that serde_json cannot parse as Message
Malformed == "malformed"
\* settings.broadcast_address: "All" mode or one configured address
BroadcastAddrs == {"255.255.255.255", "10.0.0.255"}

\* inbound connections, each made by one send_files call on another machine
Conn == {"c1", "c2"}
\* the values Uuid::new_v4().to_string() can take
Ids == {"id1", "id2"}
\* file names
Names == {"a.txt", "b.txt"}

VARIABLES
    peers,          \* SharedState.peers: HashSet<Peer>
    settings,       \* SharedState.settings
    now,            \* Instant::now()
    next_tick,      \* deadline of broadcast_interval
    dpc,            \* position of discovery_task: "select" | "broadcast"
    dlast,          \* the last select! arm discovery_task ran, and what it did
    dsent,          \* outcome of the last broadcasting phase
    lfile,          \* each sending machine's local files named in file_paths
    snd,            \* each send_files call: position, locals, what it emitted
    net,            \* each TCP connection: what is in flight, which ends are open
    hnd,            \* each handle_incoming_batch task: position, locals, emits
    chan,           \* each handler's oneshot channel
    delivered,      \* the decisions sent into each handler's channel
    offers,         \* FileOffers: HashMap<String, oneshot::Sender<bool>>
    issued,         \* the ids Uuid::new_v4 has returned
    disk,           \* the download directory: file name -> Option<length>
    ret,            \* what the last accept_file_offer/reject_file_offer returned
    lpc,            \* position of file_receiver_task: "accept" | "stopped"
    lockuse         \* the locks the last step held across an await, and nesting

dvars == <<peers, settings, now, next_tick, dpc, dlast, dsent>>
xvars == <<lfile, snd, net, hnd, chan, delivered, offers, issued, disk, ret,
           lpc>>
vars == <<peers, settings, now, next_tick, dpc, dlast, dsent,
          lfile, snd, net, hnd, chan, delivered, offers, issued, disk, ret,
          lpc, lockuse>>

(***************************************************************************)
(* The two Mutex guards. A step of the model is the code between two       *)
(* suspension points; its lock events are listed in program order and      *)
(* scanned for a guard alive at an await (a network or disk operation) and *)
(* for a lock taken while the other is held.                               *)
(***************************************************************************)
Lock(l) == [op |-> "lock", lock |-> l]
Unlock(l) == [op |-> "unlock", lock |-> l]
Await == [op |-> "await", lock |-> "-"]

NoLockUse == [across |-> {}, nested |-> FALSE]

RECURSIVE Scan(_, _, _)
Scan(events, cur, acc) ==
    IF events = <<>>
    THEN [acc EXCEPT !.across = @ \cup cur]
    ELSE LET e == Head(events)
         IN IF e.op = "lock"
            THEN Scan(Tail(events), cur \cup {e.lock},
                      [acc EXCEPT !.nested = @ \/ (cur \ {e.lock}) # {}])
            ELSE IF e.op = "unlock"
            THEN Scan(Tail(events), cur \ {e.lock}, acc)
            ELSE Scan(Tail(events), cur, [acc EXCEPT !.across = @ \cup cur])

\* what a step with these lock events leaves in lockuse
Guards(events) == Scan(events, {}, NoLockUse)

(***************************************************************************)
(* Peer: equality and hash are by address alone.                           *)
(***************************************************************************)
PeerEqByValue(p, q) == p.address = q.address /\ p.username = q.username

PeerEq(p, q) == p.address = q.address

\* HashSet::insert: keeps the stored element when an equal one is present
HashSetInsert(set, value) ==
    IF \E p \in set : PeerEq(p, value) THEN set ELSE set \cup {value}

\* HashSet::replace: the stored equal element, if any, is taken out and the
\* new value put in; returns the old element
HashSetReplace(set, value) ==
    {p \in set : ~PeerEq(p, value)} \cup {value}

ReplacedOld(set, value) ==
    IF \E p \in set : PeerEq(p, value)
    THEN Some(CHOOSE p \in set : PeerEq(p, value))
    ELSE None

AsSecsRoundUp(d) == (d + Res - 1) \div Res

\* Duration::as_secs of now.duration_since(last_seen)
AsSecs(d) == d \div Res

\* the closure given to peers.retain
RetainPeer(peer, t) ==
    IF peer.last_seen # None
    THEN AsSecs(t - Unwrap(peer.last_seen)) < PEER_TIMEOUT_SECS
    ELSE FALSE

\* the record of one run of a select! arm: the datagram it was given, the
\* username peers.replace returned (None: no entry), and whether it emitted
\* "peers_updated"
ArmRun(arm, src, payload, old, emitted) ==
    [arm |-> arm, src |-> src, payload |-> payload, old |-> old,
     emitted |-> emitted]

NoArm == ArmRun("none", "-", "-", None, FALSE)

DInit ==
    /\ peers = {}
    /\ settings = [broadcasting_enabled |-> TRUE,
                   broadcast_address |-> "255.255.255.255"]
    /\ now = 0
    /\ next_tick = 0
    /\ dpc = "select"
    /\ dlast = NoArm
    /\ dsent = "none"
    /\ lockuse = NoLockUse

\* time passes
advance_time ==
    /\ now < MaxTime
    /\ now' = now + 1
    /\ UNCHANGED <<peers, settings, next_tick, dpc, dlast, dsent, lockuse>>
    /\ UNCHANGED xvars

\* app_handle.emit("peers_updated", ()).unwrap(): the loop goes on to the
\* position given, or the emit fails and the task panics, the guard alive
EmitUnwrap(then) == {then, "panicked"}

\* the registry Mutex is poisoned once discovery_task has panicked under it
RegistryPoisoned == dpc = "panicked"

\* lines 396-410: the guard lives in the block of the peer cleanup
CleanupLocks == <<Lock("registry"), Unlock("registry")>>

\* broadcast_interval.tick() arm, first critical section: peer cleanup
tick_cleanup ==
    /\ dpc = "select"
    /\ now >= next_tick
    /\ LET kept == {p \in peers : RetainPeer(p, now)}
           emitted == Cardinality(kept) < Cardinality(peers)
       IN /\ peers' = kept
          /\ dlast' = ArmRun("tick", "-", "-", None, emitted)
          /\ dpc' \in IF emitted THEN EmitUnwrap("broadcast") ELSE {"broadcast"}
    /\ next_tick' = next_tick + HEARTBEAT_SECS * Res
    /\ lockuse' = Guards(CleanupLocks)
    /\ UNCHANGED <<settings, now, dsent>>
    /\ UNCHANGED xvars

OnSendErrorReturn(pc) == "stopped"

\* a failed socket.send_to is logged, the loop goes on
OnSendError(pc) == pc

\* lines 413-447: the guard lives in the block that copies the settings,
\* the sends come after it
BroadcastLocksHeld == <<Lock("registry"), Await, Unlock("registry")>>

BroadcastLocks == <<Lock("registry"), Unlock("registry"), Await>>

\* tick arm, second part: read the settings, send the presence datagrams
tick_broadcast ==
    /\ dpc = "broadcast"
    /\ \/ /\ ~settings.broadcasting_enabled
          /\ dsent' = "disabled"
          /\ dpc' = "select"
       \/ /\ settings.broadcasting_enabled
          /\ dsent' = "sent"
          /\ dpc' = "select"
       \/ /\ settings.broadcasting_enabled
          /\ dsent' = "send_failed"
          /\ dpc' = OnSendError("select")
    /\ lockuse' = Guards(BroadcastLocks)
    /\ UNCHANGED <<peers, settings, now, next_tick, dlast>>
    /\ UNCHANGED xvars

\* lines 450-457: the addresses NetworkInterface::show() lists; none when
\* the call fails
LocalIpsOf(ifaces_ok) == IF ifaces_ok THEN LocalIps ELSE {}

\* serde_json::from_slice fails: the datagram is dropped, the loop goes on
OnMalformed(pc) == pc

\* lines 450-477: the guard is taken after the interfaces are listed and
\* lives to the end of the if-let block
RecvLocks == <<Lock("registry"), Unlock("registry")>>

\* socket.recv_from arm; ifaces_ok: NetworkInterface::show() returned Ok
recv_from(src, payload, ifaces_ok) ==
    /\ dpc = "select"
    /\ IF src \in LocalIpsOf(ifaces_ok)
       THEN \* continue
            /\ dlast' = ArmRun("recv", src, payload, None, FALSE)
            /\ lockuse' = NoLockUse
            /\ UNCHANGED <<peers, dpc>>
       ELSE IF payload = Malformed
       THEN /\ dlast' = ArmRun("recv", src, payload, None, FALSE)
            /\ dpc' = OnMalformed("select")
            /\ lockuse' = NoLockUse
            /\ UNCHANGED peers
       ELSE LET new_peer == [username |-> payload, address |-> src,
                             last_seen |-> Some(now)]
                old == ReplacedOld(peers, new_peer)
                emitted == IF old = None THEN TRUE
                           ELSE Unwrap(old).username # new_peer.username
            IN /\ peers' = HashSetReplace(peers, new_peer)
               /\ dlast' = ArmRun("recv", src, payload,
                                   IF old = None THEN None
                                   ELSE Some(Unwrap(old).username),
                                   emitted)
               /\ dpc' \in IF emitted THEN EmitUnwrap("select") ELSE {"select"}
               /\ lockuse' = Guards(RecvLocks)
    /\ UNCHANGED <<settings, now, next_tick, dsent>>
    /\ UNCHANGED xvars

\* lines 127-131, the guard lives to the end of the function
SettingsLocks == <<Lock("registry"), Unlock("registry")>>

\* the update_settings command; lock().unwrap() panics on a poisoned Mutex
update_settings(s) ==
    /\ ~RegistryPoisoned
    /\ settings' = s
    /\ lockuse' = Guards(SettingsLocks)
    /\ UNCHANGED <<peers, now, next_tick, dpc, dlast, dsent>>
    /\ UNCHANGED xvars

(***************************************************************************)
(* The transfer channel.                                                   *)
(***************************************************************************)
Min(a, b) == IF a < b THEN a ELSE b

\* u64 values are 0 .. U64Modulus - 1
U64Modulus == 2 ^ U64Bits

RECURSIVE SumSizes(_)
\* files.iter().map(|f| f.size).sum() in u64, overflow checks off
SumSizes(files) ==
    IF files = <<>> THEN 0
    ELSE (files[1].size + SumSizes(Tail(files))) % U64Modulus

RECURSIVE SumOverflows(_, _)
\* some addition of the sum leaves u64: with overflow checks on, it panics
SumOverflows(files, acc) ==
    IF files = <<>> THEN FALSE
    ELSE \/ acc + files[1].size >= U64Modulus
         \/ SumOverflows(Tail(files), acc + files[1].size)

CompleteOnlyAfterProgress(h) ==
    IF h.progress[h.k] > 0 THEN [h EXCEPT !.complete = Append(@, h.k)] ELSE h

\* app.emit("transfer-complete", ..) for the current file
EmitComplete(h) == [h EXCEPT !.complete = Append(@, h.k)]

\* a sequence of n zeros
Zeros(n) == [i \in 1..n |-> 0]

\* a local file a send_files call is given: name, length, and whether the
\* path resolves
LocalFile ==
    [name : Names, len : 0..MaxSize, exists : {TRUE}]
        \cup [name : Names, len : {0}, exists : {FALSE}]

\* the file_paths a send_files call can be given; file names only matter up
\* to equality, so the first one is fixed
LocalFiles ==
    {f \in UNION {[1..n -> LocalFile] : n \in 0..MaxFiles} :
        f # <<>> => f[1].name = "a.txt"}

IdleSender ==
    [pc |-> "idle", result |-> "none", files_metadata |-> <<>>, k |-> 0,
     file_size |-> 0, sent |-> <<>>, progress |-> <<>>, complete |-> <<>>,
     zero_size_percent |-> FALSE, changes |-> 0]

NoSender == [IdleSender EXCEPT !.pc = "unused"]

FreshNet ==
    [established |-> FALSE, header |-> None, response |-> None, body |-> 0,
     sclosed |-> FALSE, rclosed |-> FALSE, lost |-> FALSE]

NoHandler ==
    [pc |-> "none", result |-> "none", files |-> <<>>, total_size |-> 0,
     offer_id |-> None, decision |-> "none", wrote |-> <<>>, k |-> 0,
     received_for_file |-> <<>>, created |-> <<>>, progress |-> <<>>,
     complete |-> <<>>, zero_size_percent |-> FALSE]

NoCall == [found |-> FALSE, result |-> "none"]

XInit(files) ==
    /\ lfile \in files
    /\ net = [c \in Conn |-> FreshNet]
    /\ hnd = [c \in Conn |-> NoHandler]
    /\ chan = [c \in Conn |-> "none"]
    /\ delivered = [c \in Conn |-> <<>>]
    /\ offers = <<>>
    /\ issued = {}
    /\ disk = [n \in Names |-> None]
    /\ ret = NoCall
    /\ lpc = "accept"

(***************************************************************************)
(* send_files, run by the machine at the other end of connection c.        *)
(***************************************************************************)
\* the call returns: the TcpStream, if any, is dropped
SenderReturns(c, result) ==
    /\ snd' = [snd EXCEPT ![c].pc = "done", ![c].result = result]

\* lines 147-166: collect the metadata, connect, write the header
send_files_begin(c) ==
    /\ snd[c].pc = "idle"
    /\ IF \E k \in DOMAIN lfile[c] : ~lfile[c][k].exists
       THEN \* tokio::fs::metadata fails
            /\ SenderReturns(c, "Err")
            /\ UNCHANGED net
       ELSE LET meta == [k \in DOMAIN lfile[c] |->
                           [name |-> lfile[c][k].name, size |-> lfile[c][k].len]]
                n == Len(lfile[c])
            IN \/ \* TcpStream::connect fails
                  /\ SenderReturns(c, "Err")
                  /\ UNCHANGED net
               \/ /\ snd' = [snd EXCEPT ![c].pc = "await_response",
                                        ![c].files_metadata = meta,
                                        ![c].sent = Zeros(n),
                                        ![c].progress = Zeros(n)]
                  /\ net' = [net EXCEPT ![c].established = TRUE,
                                        ![c].header = Some(meta)]
    /\ UNCHANGED <<lfile, hnd, chan, delivered, offers, issued, disk, ret>>
    /\ UNCHANGED <<dvars, lpc, lockuse>>

\* lines 168-173: read exactly one acceptance byte
send_files_response(c) ==
    /\ snd[c].pc = "await_response"
    /\ \/ /\ net[c].response # None
          /\ ~net[c].lost
          /\ IF Unwrap(net[c].response) # 1
             THEN /\ snd' = [snd EXCEPT ![c].pc = "done", ![c].result = "Rejected"]
                  /\ net' = [net EXCEPT ![c].response = None, ![c].sclosed = TRUE]
             ELSE /\ snd' = [snd EXCEPT ![c].pc = "open", ![c].k = 1]
                  /\ net' = [net EXCEPT ![c].response = None]
       \/ \* read_exact fails: the handler closed without a byte
          /\ ~net[c].lost
          /\ net[c].response = None /\ net[c].rclosed
          /\ SenderReturns(c, "Err")
          /\ net' = [net EXCEPT ![c].sclosed = TRUE]
       \/ \* read_exact fails: the connection is broken
          /\ SenderReturns(c, "Err")
          /\ net' = [net EXCEPT ![c].sclosed = TRUE, ![c].lost = TRUE]
    /\ UNCHANGED <<lfile, hnd, chan, delivered, offers, issued, disk, ret>>
    /\ UNCHANGED <<dvars, lpc, lockuse>>

\* lines 175-178: the next path of file_paths is opened, or the call returns
send_files_open(c) ==
    /\ snd[c].pc = "open"
    /\ LET k == snd[c].k
       IN IF k > Len(lfile[c])
          THEN /\ SenderReturns(c, "Ok")
               /\ net' = [net EXCEPT ![c].sclosed = TRUE]
          ELSE IF ~lfile[c][k].exists
          THEN /\ SenderReturns(c, "Err")
               /\ net' = [net EXCEPT ![c].sclosed = TRUE]
          ELSE /\ snd' = [snd EXCEPT ![c].pc = "read",
                                     ![c].file_size = lfile[c][k].len]
               /\ UNCHANGED net
    /\ UNCHANGED <<lfile, hnd, chan, delivered, offers, issued, disk, ret>>
    /\ UNCHANGED <<dvars, lpc, lockuse>>

\* file.read(&mut buffer): what is left of the file now, up to the buffer
FileRead(len, pos) == IF len > pos THEN Min(BufLen, len - pos) ELSE 0

\* lines 181-199: one turn of the streaming loop
send_files_chunk(c) ==
    /\ snd[c].pc = "read"
    /\ LET k == snd[c].k
           bytes_read == FileRead(lfile[c][k].len, snd[c].sent[k])
       IN IF bytes_read = 0
          THEN \* break, emit "transfer-complete"
               /\ snd' = [snd EXCEPT ![c] =
                            [EmitComplete(@) EXCEPT !.pc = "open", !.k = k + 1]]
               /\ UNCHANGED net
          ELSE \/ \* write_all, then emit "transfer-progress"
                  /\ ~net[c].lost
                  /\ snd' = [snd EXCEPT
                       ![c].sent[k] = @ + bytes_read,
                       ![c].progress[k] = @ + 1,
                       ![c].zero_size_percent = @ \/ snd[c].file_size = 0]
                  /\ net' = [net EXCEPT ![c].body =
                                IF net[c].rclosed THEN @ ELSE @ + bytes_read]
               \/ \* write_all fails: the handler has closed
                  /\ ~net[c].lost
                  /\ net[c].rclosed
                  /\ SenderReturns(c, "Err")
                  /\ net' = [net EXCEPT ![c].sclosed = TRUE]
               \/ \* write_all fails: the connection is broken
                  /\ SenderReturns(c, "Err")
                  /\ net' = [net EXCEPT ![c].sclosed = TRUE, ![c].lost = TRUE]
    /\ UNCHANGED <<lfile, hnd, chan, delivered, offers, issued, disk, ret>>
    /\ UNCHANGED <<dvars, lpc, lockuse>>

\* while send_files runs, another process on the sending machine appends a
\* byte to, cuts a byte off, or deletes one of the files not yet fully streamed
file_changed(c, k, len, exists) ==
    /\ snd[c].pc \in {"await_response", "open", "read"}
    /\ snd[c].changes < MaxChanges
    /\ k \in DOMAIN lfile[c]
    /\ k >= snd[c].k
    /\ lfile[c][k].exists
    /\ len \in {lfile[c][k].len - 1, lfile[c][k].len + 1} \/ ~exists
    /\ exists \/ len = lfile[c][k].len
    /\ lfile' = [lfile EXCEPT ![c][k].len = len, ![c][k].exists = exists]
    /\ snd' = [snd EXCEPT ![c].changes = @ + 1]
    /\ UNCHANGED <<net, hnd, chan, delivered, offers, issued, disk, ret>>
    /\ UNCHANGED <<dvars, lpc, lockuse>>


(***************************************************************************)
(* The offer table.                                                        *)
(***************************************************************************)
\* Uuid::new_v4(): a value never returned before
UuidReused(used) == Ids

UuidNewV4(used) == Ids \ used

MapInsertDropped(map, key, value) == map

\* HashMap::insert
MapInsert(map, key, value) ==
    [i \in DOMAIN map \cup {key} |-> IF i = key THEN value ELSE map[i]]

MapKeep(map, key) == map

\* HashMap::remove: the map without the key
MapRemove(map, key) == [i \in DOMAIN map \ {key} |-> map[i]]

\* the receiving half of handler c's channel is alive until rx.await has
\* returned or the async block has ended
RxAlive(c) == hnd[c].pc \in {"emit_offer", "await"}

\* lines 207 and 215: the guard is a temporary of the if-let scrutinee and
\* lives to the end of the if-let, over sender.send
ResolveLocks == <<Lock("offers"), Unlock("offers")>>

\* accept_file_offer (accepted = TRUE) and reject_file_offer (FALSE)
resolve_offer(offer_id, accepted) ==
    /\ IF offer_id \in DOMAIN offers
       THEN LET c == offers[offer_id]
            IN /\ offers' = MapRemove(offers, offer_id)
               /\ IF RxAlive(c)
                  THEN /\ chan' = [chan EXCEPT ![c] =
                                     IF accepted THEN "true" ELSE "false"]
                       /\ delivered' = [delivered EXCEPT ![c] = Append(@, accepted)]
                       /\ ret' = [found |-> TRUE, result |-> "Ok"]
                  ELSE \* sender.send fails: "Failed to send ..."
                       /\ ret' = [found |-> TRUE, result |-> "Err"]
                       /\ UNCHANGED <<chan, delivered>>
       ELSE /\ ret' = [found |-> FALSE, result |-> "Ok"]
            /\ UNCHANGED <<offers, chan, delivered>>
    /\ lockuse' = Guards(ResolveLocks)
    /\ UNCHANGED <<lfile, snd, net, hnd, issued, disk>>
    /\ UNCHANGED <<dvars, lpc>>

accept_file_offer(offer_id) == resolve_offer(offer_id, TRUE)

reject_file_offer(offer_id) == resolve_offer(offer_id, FALSE)

(***************************************************************************)
(* file_receiver_task and handle_incoming_batch for connection c.          *)
(***************************************************************************)
\* the async block ends: the stream and the handler's locals are dropped
HandlerEnds(h, result) == [h EXCEPT !.pc = "done", !.result = result]

\* listener.accept() returns the connection, the handler is spawned
file_receiver_accept(c) ==
    /\ lpc = "accept"
    /\ net[c].established
    /\ hnd[c].pc = "none"
    /\ hnd' = [hnd EXCEPT ![c].pc = "read_header"]
    /\ UNCHANGED <<lfile, snd, net, chan, delivered, offers, issued, disk, ret>>
    /\ UNCHANGED <<dvars, lpc, lockuse>>

OnAcceptErrorReturn(pc) == "stopped"

\* if let Ok(..) = listener.accept().await fails to match: next iteration
OnAcceptError(pc) == pc

\* listener.accept() returns Err: the connection is gone, no handler is
\* spawned for it
file_receiver_accept_failed(c) ==
    /\ lpc = "accept"
    /\ net[c].established
    /\ hnd[c].pc = "none"
    /\ lpc' = OnAcceptError(lpc)
    /\ net' = [net EXCEPT ![c].established = FALSE, ![c].lost = TRUE]
    /\ UNCHANGED <<lfile, snd, hnd, chan, delivered, offers, issued, disk, ret>>
    /\ UNCHANGED <<dvars, lockuse>>

\* line 304: the guard is a temporary of the insert statement
RegisterLocks == <<Await, Lock("offers"), Unlock("offers")>>

\* lines 294-304: read and parse the header, register the offer
handler_register(c) ==
    /\ hnd[c].pc = "read_header"
    /\ \/ /\ net[c].header # None
          /\ ~net[c].lost
          /\ \E offer_id \in UuidNewV4(issued) :
               LET files == Unwrap(net[c].header)
               IN /\ hnd' = [hnd EXCEPT ![c].pc = "emit_offer",
                                        ![c].files = files,
                                        ![c].total_size = SumSizes(files),
                                        ![c].offer_id = Some(offer_id),
                                        ![c].received_for_file = Zeros(Len(files)),
                                        ![c].progress = Zeros(Len(files))]
                  /\ issued' = issued \cup {offer_id}
                  /\ offers' = MapInsert(offers, offer_id, c)
                  \* a Sender that insert displaces is dropped
                  /\ chan' = [d \in Conn |->
                               IF d = c THEN "open"
                               ELSE IF /\ offer_id \in DOMAIN offers
                                       /\ offers[offer_id] = d
                                       /\ chan[d] = "open"
                                    THEN "closed"
                                    ELSE chan[d]]
                  /\ net' = [net EXCEPT ![c].header = None]
       \/ \* the sum overflows in a build with overflow checks: the task
          \* panics before the offer is registered
          /\ net[c].header # None
          /\ ~net[c].lost
          /\ SumOverflows(Unwrap(net[c].header), 0)
          /\ hnd' = [hnd EXCEPT ![c] =
                       HandlerEnds([@ EXCEPT !.files = Unwrap(net[c].header)],
                                   "Panic")]
          /\ net' = [net EXCEPT ![c].header = None, ![c].rclosed = TRUE]
          /\ UNCHANGED <<offers, issued, chan>>
       \/ \* read_u64 fails: the peer closed without a header
          /\ net[c].header = None
          /\ net[c].sclosed
          /\ ~net[c].lost
          /\ hnd' = [hnd EXCEPT ![c] = HandlerEnds(@, "Io")]
          /\ net' = [net EXCEPT ![c].rclosed = TRUE]
          /\ UNCHANGED <<offers, issued, chan>>
       \/ \* read_u64 / read_exact fails: the connection is broken
          /\ hnd' = [hnd EXCEPT ![c] = HandlerEnds(@, "Io")]
          /\ net' = [net EXCEPT ![c].rclosed = TRUE, ![c].lost = TRUE]
          /\ UNCHANGED <<offers, issued, chan>>
    /\ lockuse' = Guards(RegisterLocks)
    /\ UNCHANGED <<lfile, snd, delivered, disk, ret>>
    /\ UNCHANGED <<dvars, lpc>>

\* lines 306-311: emit "file-offer"
handler_emit_offer(c) ==
    /\ hnd[c].pc = "emit_offer"
    /\ \/ /\ hnd' = [hnd EXCEPT ![c].pc = "await"]
          /\ UNCHANGED net
       \/ \* app.emit fails
          /\ hnd' = [hnd EXCEPT ![c] = HandlerEnds(@, "Emit")]
          /\ net' = [net EXCEPT ![c].rclosed = TRUE]
    /\ UNCHANGED <<lfile, snd, chan, delivered, offers, issued, disk, ret>>
    /\ UNCHANGED <<dvars, lpc, lockuse>>

AcceptedUnlessDropped(decision) == decision # "closed"

AcceptedAlways(decision) == TRUE

\* if let Ok(true) = rx.await
Accepted(decision) == decision = "true"

\* lines 313-320 and 350-354: rx.await returns; the handshake byte is
\* written; on accept the download directory is resolved
handler_decided(c) ==
    /\ hnd[c].pc = "await"
    /\ chan[c] \in {"true", "false", "closed"}
    /\ LET byte == IF Accepted(chan[c]) THEN 1 ELSE 0
           decided == [hnd[c] EXCEPT !.decision = chan[c]]
           written == [decided EXCEPT !.wrote = Append(@, byte)]
       IN \/ \* write_all fails: the connection is broken
             /\ hnd' = [hnd EXCEPT ![c] = HandlerEnds(decided, "Io")]
             /\ net' = [net EXCEPT ![c].rclosed = TRUE, ![c].lost = TRUE]
          \/ \* the rejection byte is written, the handler returns Ok
             /\ ~net[c].lost
             /\ byte = 0
             /\ hnd' = [hnd EXCEPT ![c] = HandlerEnds(written, "Ok")]
             /\ net' = [net EXCEPT ![c].response = Some(byte),
                                   ![c].rclosed = TRUE]
          \/ \* the acceptance byte is written, download_dir() is Ok
             /\ ~net[c].lost
             /\ byte = 1
             /\ hnd' = [hnd EXCEPT ![c] = [written EXCEPT !.pc = "create", !.k = 1]]
             /\ net' = [net EXCEPT ![c].response = Some(byte)]
          \/ \* the acceptance byte is written, download_dir() is Err
             /\ ~net[c].lost
             /\ byte = 1
             /\ hnd' = [hnd EXCEPT ![c] = HandlerEnds(written, "NotFound")]
             /\ net' = [net EXCEPT ![c].response = Some(byte),
                                   ![c].rclosed = TRUE]
    /\ UNCHANGED <<lfile, snd, chan, delivered, offers, issued, disk, ret>>
    /\ UNCHANGED <<dvars, lpc, lockuse>>

\* lines 322-326: the next file of the batch is created, or the batch is done
handler_create(c) ==
    /\ hnd[c].pc = "create"
    /\ LET k == hnd[c].k
       IN IF k > Len(hnd[c].files)
          THEN /\ hnd' = [hnd EXCEPT ![c] = HandlerEnds(@, "Ok")]
               /\ net' = [net EXCEPT ![c].rclosed = TRUE]
               /\ UNCHANGED disk
          ELSE \/ /\ hnd' = [hnd EXCEPT ![c].pc = "recv",
                                        ![c].received_for_file[k] = 0,
                                        ![c].created = Append(@, k)]
                  /\ disk' = [disk EXCEPT ![hnd[c].files[k].name] = Some(0)]
                  /\ UNCHANGED net
               \/ \* File::create fails
                  /\ hnd' = [hnd EXCEPT ![c] = HandlerEnds(@, "Io")]
                  /\ net' = [net EXCEPT ![c].rclosed = TRUE]
                  /\ UNCHANGED disk
    /\ UNCHANGED <<lfile, snd, chan, delivered, offers, issued, ret>>
    /\ UNCHANGED <<dvars, lpc, lockuse>>

BytesToReadWholeBuffer(size, received_for_file) == BufLen

\* std::cmp::min(buffer.len() as u64, file_meta.size - received_for_file)
BytesToRead(size, received_for_file) == Min(BufLen, size - received_for_file)

\* the condition of the while loop
LoopCondition(size, received_for_file) == received_for_file < size

OnEofBreak(h) ==
    [h EXCEPT !.pc = "create", !.k = @ + 1, !.complete = Append(@, h.k)]

\* bytes_read == 0: return Err(ConnectionAborted, "Connection closed prematurely")
OnEof(h) == HandlerEnds(h, "ConnectionAborted")

\* lines 329-343: one turn of the receive loop
handler_recv(c) ==
    /\ hnd[c].pc = "recv"
    /\ LET file_meta == hnd[c].files[hnd[c].k]
           received == hnd[c].received_for_file[hnd[c].k]
           bytes_to_read == BytesToRead(file_meta.size, received)
       IN /\ LoopCondition(file_meta.size, received)
          /\ \/ \* stream.read returns 1..bytes_to_read bytes
                /\ ~net[c].lost
                /\ \E bytes_read \in 1..Min(bytes_to_read, net[c].body) :
                     /\ hnd' = [hnd EXCEPT
                          ![c].received_for_file[hnd[c].k] = @ + bytes_read,
                          ![c].progress[hnd[c].k] = @ + 1,
                          ![c].zero_size_percent = @ \/ file_meta.size = 0]
                     /\ net' = [net EXCEPT ![c].body = @ - bytes_read]
                     /\ disk' = [disk EXCEPT ![file_meta.name] =
                                    Some(received + bytes_read)]
             \/ \* stream.read returns 0: the sender has closed
                /\ ~net[c].lost
                /\ net[c].body = 0
                /\ net[c].sclosed
                /\ hnd' = [hnd EXCEPT ![c] = OnEof(@)]
                /\ net' = [net EXCEPT ![c].rclosed = TRUE]
                /\ UNCHANGED disk
             \/ \* stream.read fails: the connection is broken
                /\ hnd' = [hnd EXCEPT ![c] = HandlerEnds(@, "Io")]
                /\ net' = [net EXCEPT ![c].rclosed = TRUE, ![c].lost = TRUE]
                /\ UNCHANGED disk
    /\ UNCHANGED <<lfile, snd, chan, delivered, offers, issued, ret>>
    /\ UNCHANGED <<dvars, lpc, lockuse>>

\* lines 344-348: the loop has ended, emit "transfer-complete"
handler_complete(c) ==
    /\ hnd[c].pc = "recv"
    /\ ~LoopCondition(hnd[c].files[hnd[c].k].size,
                      hnd[c].received_for_file[hnd[c].k])
    /\ hnd' = [hnd EXCEPT ![c] =
                 [EmitComplete(@) EXCEPT !.pc = "create", !.k = @ + 1]]
    /\ UNCHANGED <<lfile, snd, net, chan, delivered, offers, issued, disk, ret>>
    /\ UNCHANGED <<dvars, lpc, lockuse>>

(***************************************************************************)
(* A remote program other than send_files at the far end of connection c.  *)
(***************************************************************************)
\* the sizes such a program declares: small ones and the largest u64 values
DeclaredSizes == {0, 1, U64Modulus - 2, U64Modulus - 1}

\* the headers it sends: any list the handler parses as Vec<FileMetadata>
Headers ==
    UNION {[1..n -> [name : Names, size : DeclaredSizes]] : n \in 0..MaxFiles}

\* it connects to the transfer port
raw_connect(c) ==
    /\ ~net[c].established
    /\ ~net[c].lost
    /\ snd[c].pc = "unused"
    /\ net' = [net EXCEPT ![c].established = TRUE]
    /\ UNCHANGED <<lfile, snd, hnd, chan, delivered, offers, issued, disk, ret>>
    /\ UNCHANGED <<dvars, lpc, lockuse>>

\* it writes a length-prefixed JSON header
raw_header(c, files) ==
    /\ net[c].established
    /\ snd[c].pc = "unused"
    /\ ~net[c].sclosed
    /\ net[c].header = None
    /\ hnd[c].pc \in {"none", "read_header"}
    /\ net' = [net EXCEPT ![c].header = Some(files)]
    /\ UNCHANGED <<lfile, snd, hnd, chan, delivered, offers, issued, disk, ret>>
    /\ UNCHANGED <<dvars, lpc, lockuse>>

\* it writes one more body byte
raw_send(c) ==
    /\ net[c].established
    /\ snd[c].pc = "unused"
    /\ ~net[c].sclosed
    /\ ~net[c].rclosed
    /\ hnd[c].pc \in {"create", "recv"}
    /\ net[c].body < BufLen
    /\ net' = [net EXCEPT ![c].body = @ + 1]
    /\ UNCHANGED <<lfile, snd, hnd, chan, delivered, offers, issued, disk, ret>>
    /\ UNCHANGED <<dvars, lpc, lockuse>>

\* it closes its end
raw_close(c) ==
    /\ net[c].established
    /\ snd[c].pc = "unused"
    /\ ~net[c].sclosed
    /\ net' = [net EXCEPT ![c].sclosed = TRUE]
    /\ UNCHANGED <<lfile, snd, hnd, chan, delivered, offers, issued, disk, ret>>
    /\ UNCHANGED <<dvars, lpc, lockuse>>

XNext ==
    \/ \E c \in Conn : send_files_begin(c)
    \/ \E c \in Conn : send_files_response(c)
    \/ \E c \in Conn : send_files_open(c)
    \/ \E c \in Conn : send_files_chunk(c)
    \/ \E c \in Conn, k \in 1..MaxFiles, len \in 0..MaxSize, exists \in BOOLEAN :
          file_changed(c, k, len, exists)
    \/ \E c \in Conn : file_receiver_accept(c)
    \/ \E c \in Conn : file_receiver_accept_failed(c)
    \/ \E c \in Conn : handler_register(c)
    \/ \E c \in Conn : handler_emit_offer(c)
    \/ \E c \in Conn : handler_decided(c)
    \/ \E c \in Conn : handler_create(c)
    \/ \E c \in Conn : handler_recv(c)
    \/ \E c \in Conn : handler_complete(c)
    \/ \E offer_id \in Ids : accept_file_offer(offer_id)
    \/ \E offer_id \in Ids : reject_file_offer(offer_id)

\* one connection, batches of up to MaxFiles files of up to MaxSize bytes
TransferInit ==
    /\ DInit
    /\ \E files \in LocalFiles :
          XInit({[c \in Conn |-> IF c = "c1" THEN files ELSE <<>>]})
    /\ snd = [c \in Conn |-> IF c = "c1" THEN IdleSender ELSE NoSender]

\* two connections: a batch of one file of at most one byte, and an empty
\* batch
OffersInit ==
    /\ DInit
    /\ \E f \in {f \in LocalFiles : Len(f) = 1 /\ f[1].exists /\ f[1].len <= 1} :
          XInit({[c \in Conn |-> IF c = "c1" THEN f ELSE <<>>]})
    /\ snd = [c \in Conn |-> IdleSender]

\* no send_files call is made
DiscoveryInit ==
    /\ DInit
    /\ XInit({[c \in Conn |-> <<>>]})
    /\ snd = [c \in Conn |-> NoSender]

Init == TransferInit

Spec == Init /\ [][XNext]_vars

SpecOffers == OffersInit /\ [][XNext]_vars

\* the handler of connection c1 against any remote program
RawNext ==
    \/ raw_connect("c1")
    \/ \E files \in Headers : raw_header("c1", files)
    \/ raw_send("c1")
    \/ raw_close("c1")
    \/ \E c \in Conn : file_receiver_accept(c)
    \/ \E c \in Conn : file_receiver_accept_failed(c)
    \/ \E c \in Conn : handler_register(c)
    \/ \E c \in Conn : handler_emit_offer(c)
    \/ \E c \in Conn : handler_decided(c)
    \/ \E c \in Conn : handler_create(c)
    \/ \E c \in Conn : handler_recv(c)
    \/ \E c \in Conn : handler_complete(c)
    \/ \E offer_id \in Ids : accept_file_offer(offer_id)
    \/ \E offer_id \in Ids : reject_file_offer(offer_id)

SpecRawPeer == DiscoveryInit /\ [][RawNext]_vars

\* main: discovery_task and file_receiver_task side by side, a remote
\* machine announcing itself or sending noise, remote programs connecting
\* to the transfer port, and the UI resolving offers
AppNext ==
    \/ advance_time
    \/ tick_cleanup
    \/ tick_broadcast
    \/ \E src \in RemoteAddrs, payload \in {"alice", Malformed} :
          recv_from(src, payload, TRUE)
    \/ \E c \in Conn : raw_connect(c)
    \/ raw_header("c1", <<>>)
    \/ raw_close("c1")
    \/ \E c \in Conn : file_receiver_accept(c)
    \/ \E c \in Conn : file_receiver_accept_failed(c)
    \/ \E c \in Conn : handler_register(c)
    \/ \E c \in Conn : handler_emit_offer(c)
    \/ \E c \in Conn : handler_decided(c)
    \/ \E c \in Conn : handler_create(c)
    \/ accept_file_offer("id1")
    \/ reject_file_offer("id1")

SpecApp == DiscoveryInit /\ [][AppNext]_vars

DNext ==
    \/ advance_time
    \/ tick_cleanup
    \/ tick_broadcast
    \/ \E src \in RemoteAddrs \cup LocalIps, payload \in Usernames \cup {Malformed},
          ifaces_ok \in BOOLEAN :
          recv_from(src, payload, ifaces_ok)
    \/ \E s \in [broadcasting_enabled : BOOLEAN, broadcast_address : BroadcastAddrs] :
          update_settings(s)

SpecDiscovery == DiscoveryInit /\ [][DNext]_vars

(***************************************************************************)
(* C2: a heartbeat tick removes a peer if and only if its age is at least  *)
(* PEER_TIMEOUT_SECS or it has no last_seen; no other step removes a peer. *)
(***************************************************************************)
Stale(p, t) ==
    \/ p.last_seen = None
    \/ /\ p.last_seen # None
       /\ t - Unwrap(p.last_seen) >= PEER_TIMEOUT_SECS * Res

C2_TickEvictsExactlyStale ==
    [][ /\ tick_cleanup =>
             \A p \in peers : (p \notin peers') <=> Stale(p, now)
        /\ ~tick_cleanup =>
             \A p \in peers : \E q \in peers' : q.address = p.address ]_vars

\* a tick has just evicted one peer and kept a younger one
C2_Witness ==
    /\ dpc = "broadcast"
    /\ dlast.arm = "tick"
    /\ dlast.emitted
    /\ \E p \in peers : now - Unwrap(p.last_seen) > 0

(***************************************************************************)
(* C3: a valid presence message emits "peers_updated" if and only if its   *)
(* address is new or its username differs from the stored one; the stored  *)
(* entry's username and last_seen become the announced ones.               *)
(***************************************************************************)
C3_NotifyIffChanged ==
    [][ \A src \in RemoteAddrs, u \in Usernames :
          (\E ifaces_ok \in BOOLEAN : recv_from(src, u, ifaces_ok)) =>
            LET known == {p \in peers : p.address = src}
            IN /\ dlast'.emitted <=>
                    (known = {} \/ \E p \in known : p.username # u)
               /\ \E q \in peers' : q.address = src
               /\ \A q \in peers' :
                    q.address = src =>
                       q.username = u /\ q.last_seen = Some(now) ]_vars

\* a known peer re-announced its unchanged username later: refreshed, silent
C3_Witness ==
    /\ dlast.arm = "recv"
    /\ dlast.old = Some(dlast.payload)
    /\ ~dlast.emitted
    /\ \E p \in peers :
          /\ p.address = dlast.src
          /\ p.last_seen = Some(now)
          /\ now > 0

(***************************************************************************)
(* C10: the registry never holds two entries with the same address.        *)
(***************************************************************************)
C10_OneEntryPerAddress ==
    \A p, q \in peers : p.address = q.address => p = q

\* an address has just announced a username other than the stored one
C10_Witness ==
    /\ dlast.arm = "recv"
    /\ dlast.old # None
    /\ dlast.old # Some(dlast.payload)
    /\ \E p \in peers : p.address = dlast.src /\ p.username = dlast.payload

(***************************************************************************)
(* C1: whatever accept_file_offer and reject_file_offer calls are made, at *)
(* most one decision is ever sent into a handler's channel: the call that  *)
(* takes the entry out of the table; a call on an id that is not in the    *)
(* table (taken before, or never registered) changes nothing and returns   *)
(* Ok.                                                                     *)
(***************************************************************************)
C1_OneDecisionPerOffer ==
    /\ [](\A c \in Conn : Len(delivered[c]) <= 1)
    /\ [][ \A offer_id \in Ids, accepted \in BOOLEAN :
             resolve_offer(offer_id, accepted) =>
               IF offer_id \in DOMAIN offers
               THEN /\ offer_id \notin DOMAIN offers'
                    /\ RxAlive(offers[offer_id]) =>
                          delivered'[offers[offer_id]] = <<accepted>>
               ELSE /\ UNCHANGED <<offers, chan, delivered, hnd, net, snd,
                                   issued, disk>>
                    /\ ret'.result = "Ok" ]_vars

\* every id has been registered and taken out of the table, a decision was
\* delivered, and the last call, on one of those ids, found nothing: Ok
C1_Witness ==
    /\ issued = Ids
    /\ DOMAIN offers = {}
    /\ \E c \in Conn : Len(delivered[c]) = 1
    /\ ~ret.found
    /\ ret.result = "Ok"

(***************************************************************************)
(* C9: offers pending together have distinct ids; registering or resolving *)
(* one offer leaves every other offer in the table, undecided, its handler *)
(* as it was.                                                              *)
(***************************************************************************)
\* the table entries that belong to handler d
EntriesOf(table, d) == {i \in DOMAIN table : table[i] = d}

C9_OffersIndependent ==
    /\ [](\A c, d \in Conn :
            (c # d /\ hnd[c].offer_id # None /\ hnd[d].offer_id # None)
               => hnd[c].offer_id # hnd[d].offer_id)
    /\ [](\A i \in DOMAIN offers :
            RxAlive(offers[i]) =>
               chan[offers[i]] = "open" /\ delivered[offers[i]] = <<>>)
    /\ [][ \A offer_id \in Ids, accepted \in BOOLEAN :
             (resolve_offer(offer_id, accepted) /\ offer_id \in DOMAIN offers) =>
                \A d \in Conn \ {offers[offer_id]} :
                   /\ chan'[d] = chan[d]
                   /\ delivered'[d] = delivered[d]
                   /\ hnd'[d] = hnd[d]
                   /\ EntriesOf(offers', d) = EntriesOf(offers, d) ]_vars
    /\ [][ \A c \in Conn :
             handler_register(c) =>
                \A d \in Conn \ {c} :
                   /\ chan'[d] = chan[d]
                   /\ EntriesOf(offers', d) = EntriesOf(offers, d) ]_vars

\* two handlers wait; one offer has been resolved, the other is still in
\* the table, undecided
C9_Witness ==
    \E c, d \in Conn :
       /\ c # d
       /\ hnd[c].pc = "await" /\ hnd[d].pc = "await"
       /\ chan[c] \in {"true", "false"}
       /\ chan[d] = "open"
       /\ EntriesOf(offers, d) # {}
       /\ EntriesOf(offers, c) = {}

(***************************************************************************)
(* C4: a handler whose decision is reject writes the one byte 0 and        *)
(* creates no file; a send_files call that reads it returns the rejection  *)
(* error having written no file byte and emitted no progress or completion.*)
(***************************************************************************)
\* the sequence 1, 2, .., n
UpTo(n) == [i \in 1..n |-> i]

NothingStreamed(s) ==
    /\ \A j \in DOMAIN s.sent : s.sent[j] = 0 /\ s.progress[j] = 0
    /\ s.complete = <<>>

C4_RejectSendsNothing ==
    \A c \in Conn :
       /\ hnd[c].decision = "false" =>
             /\ hnd[c].pc = "done"
             /\ hnd[c].created = <<>>
             /\ hnd[c].complete = <<>>
             /\ hnd[c].wrote = IF hnd[c].result = "Ok" THEN <<0>> ELSE <<>>
             /\ hnd[c].result = "Ok" \/ net[c].lost
             /\ \A n \in Names : disk[n] = None
             /\ NothingStreamed(snd[c])
             /\ net[c].body = 0
             /\ (snd[c].pc = "done" /\ ~net[c].lost) => snd[c].result = "Rejected"
       /\ snd[c].result = "Rejected" =>
             /\ hnd[c].wrote = <<0>>
             /\ NothingStreamed(snd[c])

\* the offer was rejected and send_files has returned the rejection error
C4_Witness ==
    /\ hnd["c1"].decision = "false"
    /\ hnd["c1"].wrote = <<0>>
    /\ snd["c1"].result = "Rejected"
    /\ Len(snd["c1"].files_metadata) = MaxFiles

(***************************************************************************)
(* C5: in the receive loop the bytes received for a file never exceed its  *)
(* declared size, the loop ends exactly at that size, and what the handler *)
(* has taken from the stream is the declared sizes of the files before     *)
(* plus the bytes of the current one.                                      *)
(***************************************************************************)
RECURSIVE SumSeq(_)
SumSeq(q) == IF q = <<>> THEN 0 ELSE q[1] + SumSeq(Tail(q))

\* bytes handler c has read from the body of connection c
TakenFromStream(c) == SumSeq(snd[c].sent) - net[c].body

\* the elements of a sequence
Range(q) == {q[i] : i \in DOMAIN q}

C5_ReceivedWithinDeclared ==
    \A c \in Conn :
       /\ \A j \in DOMAIN hnd[c].files :
             /\ hnd[c].received_for_file[j] <= hnd[c].files[j].size
             /\ j \in Range(hnd[c].complete) =>
                   hnd[c].received_for_file[j] = hnd[c].files[j].size
             /\ j > hnd[c].k => hnd[c].received_for_file[j] = 0
       /\ (hnd[c].pc \in {"create", "recv"} /\ ~net[c].rclosed) =>
             TakenFromStream(c) = SumSeq(hnd[c].received_for_file)

\* a file is complete while bytes of the next one already wait in the stream
C5_Witness ==
    /\ hnd["c1"].pc = "recv"
    /\ hnd["c1"].k < Len(hnd["c1"].files)
    /\ hnd["c1"].received_for_file[hnd["c1"].k] = hnd["c1"].files[hnd["c1"].k].size
    /\ hnd["c1"].received_for_file[hnd["c1"].k] > 0
    /\ net["c1"].body > 0

(***************************************************************************)
(* C6: send_files writes for each file exactly the bytes its header        *)
(* declares, and starts no file before the one before it is written in     *)
(* full, also when a file's length changes after the header was built.     *)
(***************************************************************************)
C6_SenderWritesDeclaredSizes ==
    \A c \in Conn :
       \A j \in DOMAIN snd[c].sent :
          /\ snd[c].sent[j] <= snd[c].files_metadata[j].size
          /\ (j < snd[c].k \/ snd[c].result = "Ok") =>
                snd[c].sent[j] = snd[c].files_metadata[j].size

(***************************************************************************)
(* C7: a handler leaves the receive loop with a file short of its declared *)
(* size only by ending the batch: in ConnectionAborted when the sender has *)
(* closed (in the I/O error when the connection broke). Then there is no   *)
(* completion for that file or a later one, no later file was created, and *)
(* the partial file and the files completed before stay on disk.           *)
(***************************************************************************)
\* a file handler c has created is short of its declared size
Incomplete(c) ==
    \E j \in Range(hnd[c].created) :
       hnd[c].received_for_file[j] < hnd[c].files[j].size

C7_PrematureCloseAborts ==
    \A c \in Conn :
       /\ (Incomplete(c) /\ hnd[c].pc # "recv") =>
             /\ hnd[c].pc = "done"
             /\ \/ hnd[c].result = "ConnectionAborted" /\ net[c].sclosed
                \/ hnd[c].result = "Io" /\ net[c].lost
       /\ hnd[c].result = "ConnectionAborted" =>
             LET k == hnd[c].k
                 files == hnd[c].files
             IN /\ hnd[c].pc = "done"
                /\ k \in DOMAIN files
                /\ hnd[c].received_for_file[k] < files[k].size
                /\ hnd[c].complete = UpTo(k - 1)
                /\ hnd[c].created = UpTo(k)
                /\ disk[files[k].name] = Some(hnd[c].received_for_file[k])
                /\ \A j \in 1..(k - 1) :
                      (\A i \in (j + 1)..k : files[i].name # files[j].name)
                         => disk[files[j].name] = Some(files[j].size)

\* the second file of a batch was cut short after the first was completed
C7_Witness ==
    /\ hnd["c1"].result = "ConnectionAborted"
    /\ hnd["c1"].k = MaxFiles
    /\ hnd["c1"].complete = UpTo(MaxFiles - 1)
    /\ hnd["c1"].received_for_file[MaxFiles] > 0
    /\ hnd["c1"].files[1].name # hnd["c1"].files[MaxFiles].name
    /\ disk[hnd["c1"].files[1].name] = Some(hnd["c1"].files[1].size)
    /\ hnd["c1"].files[1].size > 0

C11_LocalDatagramIgnored ==
    [][ \A src \in LocalIps, payload \in Usernames \cup {Malformed} :
          (\E ifaces_ok \in BOOLEAN : recv_from(src, payload, ifaces_ok)) =>
             /\ peers' = peers
             /\ ~dlast'.emitted ]_vars

(***************************************************************************)
(* C14: a peer whose next presence message is received two heartbeat       *)
(* periods after the last one is in the registry all the time between the  *)
(* two: every tick that runs while the peer's age is at most twice the     *)
(* heartbeat period (up to and including the moment the second message is  *)
(* due but not yet taken by the receive arm) keeps the peer.               *)
(***************************************************************************)
\* the spacing of two messages around one missed heartbeat, in clock units
MissedOneSpacing == 2 * HEARTBEAT_SECS * Res

C14_OneMissedHeartbeatTolerated ==
    [][ tick_cleanup =>
          \A p \in peers :
             (p.last_seen # None /\ now - Unwrap(p.last_seen) <= MissedOneSpacing)
                => p \in peers' ]_vars

(***************************************************************************)
(* C15: the total_size of every emitted "file-offer" is the arithmetic sum *)
(* of the sizes its header declares, for all u64 sizes.                    *)
(***************************************************************************)
\* handler c has emitted "file-offer" for its offer
Notified(c) ==
    /\ hnd[c].offer_id # None
    /\ hnd[c].pc # "emit_offer"
    /\ hnd[c].result # "Emit"

RECURSIVE SumSizesUnbounded(_)
\* the sum in the integers
SumSizesUnbounded(files) ==
    IF files = <<>> THEN 0
    ELSE files[1].size + SumSizesUnbounded(Tail(files))

C15_TotalSizeIsSum ==
    \A c \in Conn :
       Notified(c) => hnd[c].total_size = SumSizesUnbounded(hnd[c].files)

(***************************************************************************)
(* C12: a handler suspended in rx.await stays suspended while its offer is *)
(* unresolved and its connection is up, and its wait is over (it can take  *)
(* its next step) as soon as the offer is resolved or the connection has   *)
(* failed.                                                                 *)
(***************************************************************************)
\* connection c has failed: it broke, or the far end is gone
ConnectionFailed(c) == net[c].lost \/ net[c].sclosed

C12_WaitEndsOnDecisionOrFailure ==
    \A c \in Conn :
       hnd[c].pc = "await" =>
          ((chan[c] # "open" \/ ConnectionFailed(c))
              <=> ENABLED handler_decided(c))

(***************************************************************************)
(* C16: a handler writes at most one handshake byte and none before a      *)
(* decision was delivered to it; the byte is 1 if the decision is accept   *)
(* and 0 if it is reject; a decided handler whose connection is up has     *)
(* written its byte; no file is created before the byte 1 is written.      *)
(***************************************************************************)
C16_OneHandshakeByte ==
    \A c \in Conn :
       /\ Len(hnd[c].wrote) <= 1
       /\ hnd[c].wrote # <<>> =>
             /\ Len(delivered[c]) = 1
             /\ hnd[c].wrote[1] = IF delivered[c][1] THEN 1 ELSE 0
       /\ (hnd[c].decision # "none" /\ ~net[c].lost) => hnd[c].wrote # <<>>
       /\ (hnd[c].created # <<>> \/ hnd[c].pc \in {"create", "recv"}) =>
             hnd[c].wrote = <<1>>
       /\ (\E n \in Names : disk[n] # None) =>
             \E d \in Conn : hnd[d].wrote = <<1>>

\* the offer was accepted, the byte 1 written, and the first file created
C16_Witness ==
    /\ delivered["c1"] = <<TRUE>>
    /\ hnd["c1"].wrote = <<1>>
    /\ hnd["c1"].created = <<1>>
    /\ hnd["c1"].pc = "recv"

(***************************************************************************)
(* C13: a failed broadcast send, a malformed datagram, a failed accept and *)
(* a handler that ends in error each leave discovery_task at its select!   *)
(* and file_receiver_task at its accept: the discovery loop stops only     *)
(* when emitting "peers_updated" fails, the listener never; a due tick, a  *)
(* datagram and a waiting connection are then taken as before.             *)
(***************************************************************************)
\* handler c ends in error in this step
HandlerFails(c) ==
    /\ hnd[c].pc # "done"
    /\ hnd'[c].pc = "done"
    /\ hnd'[c].result # "Ok"

C13_LoopsSurviveFailures ==
    /\ [](lpc = "accept")
    /\ [](dpc \in {"select", "broadcast", "panicked"})
    /\ []((dpc = "select" /\ now >= next_tick) => ENABLED tick_cleanup)
    /\ [](dpc = "select" =>
             \A src \in RemoteAddrs : ENABLED recv_from(src, "alice", TRUE))
    /\ [](\A c \in Conn :
             (net[c].established /\ hnd[c].pc = "none") =>
                ENABLED file_receiver_accept(c))
    /\ [][ (tick_broadcast /\ dsent' = "send_failed") => dpc' = "select" ]_vars
    /\ [][ \A src \in RemoteAddrs :
             recv_from(src, Malformed, TRUE) => dpc' = "select" ]_vars
    /\ [][ \A c \in Conn :
             (file_receiver_accept_failed(c) \/ HandlerFails(c)) =>
                /\ lpc' = "accept"
                /\ dpc' = dpc ]_vars
    /\ [][ (dpc # "panicked" /\ dpc' = "panicked") => dlast'.emitted ]_vars

\* after a failed broadcast send, a failed accept and a handler error, a
\* malformed datagram was dropped, and then a tick ran, a remote peer was
\* registered and a later connection was accepted
C13_Witness ==
    /\ dsent = "send_failed"
    /\ net["c2"].lost /\ hnd["c2"].pc = "none"
    /\ hnd["c1"].pc = "await"
    /\ dlast.arm = "recv" /\ dlast.payload = "alice" /\ ~dlast.emitted
    /\ now > 0
    /\ dpc = "select"
    /\ peers # {}

(***************************************************************************)
(* C17: no step of any task has a registry or offer-table guard alive at   *)
(* an await (a network or disk operation, a suspension), in particular not *)
(* the tick at its broadcast sends, and none takes one lock while holding  *)
(* the other.                                                              *)
(***************************************************************************)
C17_NoGuardAcrossAwait ==
    /\ lockuse.across = {}
    /\ ~lockuse.nested

\* the tick has sent its broadcast, a datagram has put a peer in the
\* registry, and a handler has put its offer in the table
C17_Witness ==
    /\ dsent = "sent"
    /\ peers # {}
    /\ DOMAIN offers # {}
    /\ hnd["c1"].pc = "await"

(***************************************************************************)
(* C18: from the insert on, through the "file-offer" notification and      *)
(* until a call resolves it, an offer's id is in the table and maps to its *)
(* handler; an accept_file_offer or reject_file_offer call on the id of a  *)
(* notified, unresolved offer finds the entry and delivers its decision.   *)
(***************************************************************************)
\* the offer of handler c has been registered and no call has decided it
Unresolved(c) ==
    /\ hnd[c].offer_id # None
    /\ delivered[c] = <<>>
    /\ hnd[c].pc \in {"emit_offer", "await"}

C18_InsertBeforeNotify ==
    /\ [](\A c \in Conn :
            Unresolved(c) =>
               /\ Unwrap(hnd[c].offer_id) \in DOMAIN offers
               /\ offers[Unwrap(hnd[c].offer_id)] = c)
    /\ [](\A c \in Conn :
            (Notified(c) /\ delivered[c] = <<>>) => hnd[c].pc = "await")
    /\ [][ \A c \in Conn, accepted \in BOOLEAN :
             (/\ Notified(c)
              /\ Unresolved(c)
              /\ resolve_offer(Unwrap(hnd[c].offer_id), accepted)) =>
                /\ ret' = [found |-> TRUE, result |-> "Ok"]
                /\ delivered'[c] = <<accepted>> ]_vars

\* both offers were notified; a call found and resolved the first, the
\* second is still in the table
C18_Witness ==
    /\ Notified("c1") /\ Notified("c2")
    /\ delivered["c1"] # <<>>
    /\ Unresolved("c2")
    /\ ret = [found |-> TRUE, result |-> "Ok"]
    /\ hnd["c1"].pc = "await"

(***************************************************************************)
(* C19: every id in the offer table is the offer of exactly one handler,   *)
(* and that handler is between its insert and the end of its rx.await: no  *)
(* entry is left behind by a handler that has ended.                       *)
(***************************************************************************)
C19_EntryHasWaitingHandler ==
    /\ \A i \in DOMAIN offers :
          /\ hnd[offers[i]].offer_id = Some(i)
          /\ hnd[offers[i]].pc \in {"emit_offer", "await"}
    /\ \A i, j \in DOMAIN offers : offers[i] = offers[j] => i = j

(***************************************************************************)
(* C20: when send_files has returned success and the handler of its        *)
(* connection has ended, the connection never having broken, the handler   *)
(* has emitted a completion for every file of the batch.                   *)
(***************************************************************************)
C20_SenderOkMeansReceived ==
    \A c \in Conn :
       (snd[c].result = "Ok" /\ hnd[c].pc = "done" /\ ~net[c].lost) =>
          hnd[c].complete = UpTo(Len(snd[c].files_metadata))

====
